---- MODULE Spec2Model ----
(***************************************************************************)
(* Connection-lifecycle management of controlbox:                          *)
(*   connector_discovery_facade.py  MaintainedConnection,                  *)
(*                                  MaintainedConnectionLoop,              *)
(*                                  ConnectionManager,                     *)
(*                                  ConnectionDiscovery,                   *)
(*                                  ControllerDiscoveryFacade              *)
(* The collaborators that live in other modules of the package             *)
(* (AsyncLoop, QueuedEventSource, PeriodRetryStrategy, Connector) are      *)
(* modelled after their documented contract.                               *)
(***************************************************************************)
EXTENDS Integers, Sequences, FiniteSets, TLC

\* ------------------------------------------------------------------ bounds
MaxRec == 2
MaxConn == 2
MaxTime == 2
MaxEvents == 4
RetryPeriod == 2        \* the retry_period the ConnectionManager is built with
MaxFired == 1           \* resource events a discovery fires in one poll
MaxPut == 3             \* service notifications the zeroconf browser makes

Keys == {"A", "B"}
Recs == 1..MaxRec
Conns == 1..MaxConn
Threads == {"t1", "t2"}
NoTime == -1
Outcomes == {"ok", "ConnectorError", "Exception"}

VARIABLES
    conns,        \* ConnectionManager._connections: key -> record id, 0 = no entry
    korder,       \* insertion order of the keys of _connections
    nextRec,      \* number of MaintainedConnection objects built so far
    nextConn,     \* number of Connector objects built so far
    rec_key,      \* MaintainedConnection.resource
    rec_conn,     \* MaintainedConnection.connector
    rec_loop,     \* MaintainedConnection.loop is not None
    loop_fn,      \* MaintainedConnectionLoop._loop is not None
    rs_last,      \* retry strategy of the record: time of the last permitted attempt
    wpc,          \* position of the record's worker thread
    wdl,          \* end of the worker's bounded wait
    stop_event,   \* AsyncLoop.stop_event
    success,      \* loop(): the local `success` of the worker's current loop() call
    connected,    \* Connector.connected
    avail,        \* Connector.available
    nlisten,      \* number of _connector_events listeners on connector.events
    called,       \* the connector this step called connect() on, 0 when it called none
    queue,        \* ConnectionManager.events: queued, not yet published
    delivered,    \* what the listeners of ConnectionManager.events have seen
    raised,       \* the events the connectors raised, in order
    now,          \* time.time()
    pc,           \* position of each controlling thread
    frame,        \* locals of the manager call each controlling thread is in
    result,       \* how the last manager call of the thread ended
    attempted,    \* per connector, time.time() at its last connect() call
    d_manager,    \* ConnectionDiscovery.manager is set
    facade,       \* ControllerDiscoveryFacade and the poll it is in
    server        \* TCPServerDiscovery: its event_queue and the update() in progress

mgr     == <<conns, korder, nextRec, rec_key, rec_conn, rec_loop, loop_fn>>
workers == <<wpc, wdl, stop_event, success>>
cstate  == <<connected, avail, nlisten, nextConn>>
evs     == <<queue, delivered, raised>>
ctl     == <<pc, frame, result>>
fac     == <<d_manager, facade, server>>
vars    == <<mgr, workers, cstate, evs, ctl, rs_last, now, called, attempted, fac>>

Discoveries == {"d1", "d2"}

\* the connector factory was not invoked
NoFactory == [arg |-> "none", made |-> 0]

\* no ControllerDiscoveryFacade has been built; no discovery is being polled
NoFacade == [built |-> FALSE, discoveries |-> <<>>, in_update |-> FALSE, todo |-> <<>>,
             polled |-> <<>>, pending |-> <<>>, factory |-> NoFactory]

\* a TCPServerDiscovery just built: nothing queued, no update() in progress
NoServer == [event_queue |-> <<>>, pc |-> "idle", events |-> <<>>, fired |-> <<>>,
             put |-> <<>>, notified |-> 0]

NoFrame == [op |-> "none", key |-> "A", conn |-> 0, prev |-> 0, rec |-> 0,
            todo |-> <<>>, failed |-> 0]

Init ==
    /\ conns = [k \in Keys |-> 0]
    /\ korder = <<>>
    /\ nextRec = 0
    /\ nextConn = 0
    /\ rec_key = [r \in Recs |-> "A"]
    /\ rec_conn = [r \in Recs |-> 0]
    /\ rec_loop = [r \in Recs |-> FALSE]
    /\ loop_fn = [r \in Recs |-> FALSE]
    /\ rs_last = [r \in Recs |-> NoTime]
    /\ wpc = [r \in Recs |-> "none"]
    /\ wdl = [r \in Recs |-> 0]
    /\ stop_event = [r \in Recs |-> FALSE]
    /\ success = [r \in Recs |-> "unset"]
    /\ connected = [c \in Conns |-> FALSE]
    /\ avail = [c \in Conns |-> FALSE]
    /\ nlisten = [c \in Conns |-> 0]
    /\ called = 0
    /\ queue = <<>>
    /\ delivered = <<>>
    /\ raised = <<>>
    /\ now = 0
    /\ pc = [t \in Threads |-> "idle"]
    /\ frame = [t \in Threads |-> NoFrame]
    /\ result = [t \in Threads |-> "none"]
    /\ attempted = [c \in Conns |-> NoTime]
    /\ d_manager = [d \in Discoveries |-> FALSE]
    /\ facade = NoFacade
    /\ server = NoServer

\* ------------------------------------------------------------ collaborators
Ev(type, c) == [type |-> type, conn |-> c]

\* QueuedEventSource.fire: the event is queued, nothing is dispatched
fire(st, ev) == [st EXCEPT !.queue = Append(@, ev)]

\* QueuedEventSource.publish: every queued event goes to the listeners, in
\* arrival order, on the thread that calls publish
publish(st, who) ==
    [queue |-> <<>>,
     delivered |-> st.delivered \o [i \in 1..Len(st.queue) |-> [ev |-> st.queue[i], by |-> who]]]

\* PeriodRetryStrategy.__call__: the delay until the next attempt and the
\* strategy's new last-attempt time
PeriodRetryStrategy(last, t) ==
    LET delay == IF last = NoTime THEN 0 ELSE RetryPeriod - (t - last)
    IN  [delay |-> delay, last |-> IF delay <= 0 THEN t ELSE last]

\* ------------------------------------------------------ MaintainedConnection
_connector_events_direct(st, ev, who) ==
    [st EXCEPT !.delivered = Append(@, [ev |-> ev, by |-> who])]

_connector_events_twice(st, ev, who) == fire(fire(st, ev), ev)

\* MaintainedConnection._connector_events
_connector_events(st, ev, who) == fire(st, ev)

\* connector.events: each MaintainedConnection built on the connector has
\* added its _connector_events as a listener
RECURSIVE notify(_, _, _, _)
notify(st, ev, who, n) ==
    IF n = 0 THEN st ELSE notify(_connector_events(st, ev, who), ev, who, n - 1)

Raise(c, type, who) ==
    LET st == notify([queue |-> queue, delivered |-> delivered], Ev(type, c), who, nlisten[c])
    IN  /\ queue' = st.queue
        /\ delivered' = st.delivered
        /\ raised' = Append(raised, Ev(type, c))

\* every connected connector can still raise its disconnect event
HasRoom == Len(raised) + Cardinality({c \in Conns : connected[c]}) + 2 <= MaxEvents

\* the step calls connect() on no connector
NoCall == called' = 0 /\ UNCHANGED attempted

\* Connector.connect: connected and ConnectorConnected raised, or an error
connect(c, out, who) ==
    /\ called' = c
    /\ attempted' = [attempted EXCEPT ![c] = now]
    /\ IF out = "ok"
       THEN /\ connected' = [connected EXCEPT ![c] = TRUE]
            /\ Raise(c, "connected", who)
       ELSE UNCHANGED <<connected, evs>>

\* Connector.disconnect: ConnectorDisconnected raised when it was connected
disconnect(c, who) ==
    IF connected[c]
    THEN /\ connected' = [connected EXCEPT ![c] = FALSE]
         /\ Raise(c, "disconnected", who)
    ELSE UNCHANGED <<connected, evs>>

try_open_ignoring_available(c) == ~connected[c]

\* MaintainedConnection._open: try_open
try_open(c) == ~connected[c] /\ avail[c]

\* MaintainedConnection._open; out is what connect() does when it is called
_open(r, out, who) ==
    IF try_open(rec_conn[r])
    THEN connect(rec_conn[r], out, who)
    ELSE NoCall /\ UNCHANGED <<connected, evs>>

\* does _open leave with an error that is not a ConnectorError
open_raises(r, out) == try_open(rec_conn[r]) /\ out = "Exception"

_close_leaves_connected(r, who) == UNCHANGED <<connected, evs>>

\* MaintainedConnection._close
_close(r, who) == disconnect(rec_conn[r], who)

\* ------------------------------------------------------------------ AsyncLoop
Running(r) == wpc[r] \in {"check", "open", "while", "wait", "sleep"}

Worker(r) == [thread |-> <<"worker", r>>, op |-> "loop"]

\* AsyncLoop.start: the worker thread begins to run
start(r) == wpc' = [wpc EXCEPT ![r] = "check"]

\* AsyncLoop.stop, first half: the cancellation flag is set, which also
\* interrupts the worker's bounded wait
stop(r) == stop_event' = [stop_event EXCEPT ![r] = TRUE]

\* AsyncLoop.stop, second half: the caller is blocked until the worker has left
joined(r) == wpc[r] \in {"new", "exited"}

\* AsyncLoop: while not stop_event.is_set(): self.loop()
WorkerCheck(r) ==
    /\ wpc[r] = "check"
    /\ wpc' = [wpc EXCEPT ![r] = IF stop_event[r] THEN "exited" ELSE "open"]
    /\ NoCall
    /\ UNCHANGED <<mgr, wdl, stop_event, cstate, evs, ctl, rs_last, now>>
    /\ UNCHANGED <<success, fac>>

\* -------------------------------------------------- MaintainedConnectionLoop
\* loop(): maintained_connection._open()
WorkerOpen(r) ==
    /\ wpc[r] = "open"
    /\ \E out \in Outcomes :
          /\ out = "ok" => HasRoom
          /\ _open(r, out, Worker(r))
          /\ wpc' = [wpc EXCEPT ![r] = IF open_raises(r, out) THEN "wait" ELSE "while"]
    /\ UNCHANGED <<mgr, wdl, stop_event, success, avail, nlisten, nextConn, ctl, rs_last, now>>
    /\ UNCHANGED fac

\* loop(): the test of the inner while
while_connected(r) == connected[rec_conn[r]]

\* loop(): one turn of `while connector.connected`: _connected_loop(), and
\* _close() when the callback raises
WorkerConnected(r) ==
    /\ wpc[r] = "while"
    /\ IF while_connected(r)
       THEN IF loop_fn[r]
            THEN \E returns \in BOOLEAN :
                    IF returns
                    THEN /\ success' = [success EXCEPT ![r] = "True"]
                         /\ UNCHANGED <<wpc, connected, evs>>
                    ELSE /\ success' = [success EXCEPT ![r] = "False"]
                         /\ _close(r, Worker(r))
                         /\ wpc' = [wpc EXCEPT ![r] = "wait"]
            ELSE /\ success' = [success EXCEPT ![r] = "True"]
                 /\ UNCHANGED <<wpc, connected, evs>>
       ELSE /\ wpc' = [wpc EXCEPT ![r] = "wait"]
            /\ UNCHANGED <<success, connected, evs>>
    /\ NoCall
    /\ UNCHANGED <<mgr, wdl, stop_event, avail, nlisten, nextConn, ctl, rs_last, now>>
    /\ UNCHANGED fac

\* loop(): finally: the argument of stop_event.wait is retry_strategy()
WorkerRetry(r) ==
    /\ wpc[r] = "wait"
    /\ LET e == PeriodRetryStrategy(rs_last[r], now)
       IN  /\ rs_last' = [rs_last EXCEPT ![r] = e.last]
           /\ wdl' = [wdl EXCEPT ![r] = IF e.delay > 0 THEN now + e.delay ELSE now]
    /\ wpc' = [wpc EXCEPT ![r] = "sleep"]
    /\ NoCall
    /\ UNCHANGED <<mgr, stop_event, cstate, evs, ctl, now>>
    /\ UNCHANGED <<success, fac>>

\* loop(): stop_event.wait(delay) returns when the flag is set or the delay is
\* over; loop() returns and AsyncLoop tests the flag before the next turn
WorkerWake(r) ==
    /\ wpc[r] = "sleep"
    /\ stop_event[r] \/ now >= wdl[r]
    /\ wpc' = [wpc EXCEPT ![r] = IF stop_event[r] THEN "exited" ELSE "open"]
    /\ wdl' = [wdl EXCEPT ![r] = 0]
    /\ success' = [success EXCEPT ![r] = "unset"]
    /\ NoCall
    /\ UNCHANGED <<mgr, stop_event, cstate, evs, ctl, rs_last, now>>
    /\ UNCHANGED fac

\* ---------------------------------------------------------- ConnectionManager
Caller(t, op) == [thread |-> t, op |-> op]

\* the call ends: normally ("ok") or with the error it raises
Return(t, how) ==
    /\ pc' = [pc EXCEPT ![t] = "returned"]
    /\ result' = [result EXCEPT ![t] = how]

\* the caller has the outcome and goes on to its next call
Resume(t) ==
    /\ pc[t] = "returned"
    /\ pc' = [pc EXCEPT ![t] = "idle"]
    /\ frame' = [frame EXCEPT ![t] = NoFrame]
    /\ result' = [result EXCEPT ![t] = "none"]
    /\ NoCall
    /\ UNCHANGED <<mgr, workers, cstate, evs, rs_last, now>>
    /\ UNCHANGED fac

Goto(t, where) ==
    /\ pc' = [pc EXCEPT ![t] = where]
    /\ result' = [result EXCEPT ![t] = "none"]

\* the connectors a caller hands to available(k, .): the one the record of k
\* holds, or one the connector factory has just built
Offered(k) ==
    (IF conns[k] # 0 THEN {rec_conn[conns[k]]} ELSE {})
        \cup (IF nextConn < MaxConn THEN {nextConn + 1} ELSE {})

InAvailable == {t \in Threads : pc[t] \in {"av_stop", "av_join", "av_new"}}

available_branch_always_replace(prev, c) ==
    IF prev = 0 THEN "new" ELSE "stop"

\* available(): previous is None / previous.connector is connector / changed
available_branch(prev, c) ==
    IF prev = 0 THEN "new" ELSE IF rec_conn[prev] = c THEN "return" ELSE "stop"

\* available(): previous = self._connections.get(resource, None) and the tests on it
Available(t, k, c) ==
    /\ pc[t] = "idle"
    /\ c \in Offered(k)
    /\ LET prev == conns[k]
           b == available_branch(prev, c)
       IN  /\ b # "return" => nextRec + Cardinality(InAvailable) < MaxRec
           /\ frame' = [frame EXCEPT ![t] = [NoFrame EXCEPT !.op = "available", !.key = k,
                                                            !.conn = c, !.prev = prev]]
           /\ IF b = "return" THEN Return(t, "ok")
              ELSE IF b = "stop" THEN Goto(t, "av_stop") ELSE Goto(t, "av_new")
    /\ nextConn' = IF c > nextConn THEN c ELSE nextConn
    /\ NoCall
    /\ UNCHANGED <<mgr, workers, connected, avail, nlisten, evs, rs_last, now>>

\* available(): previous.loop.stop(), the flag
AvailableStop(t) ==
    /\ pc[t] = "av_stop"
    /\ IF rec_loop[frame[t].prev]
       THEN stop(frame[t].prev) /\ Goto(t, "av_join")
       ELSE UNCHANGED stop_event /\ Return(t, "AttributeError")
    /\ NoCall
    /\ UNCHANGED <<mgr, wpc, wdl, cstate, evs, frame, rs_last, now>>
    /\ UNCHANGED <<success, fac>>

\* available(): previous.loop.stop(), the join
AvailableJoin(t) ==
    /\ pc[t] = "av_join"
    /\ joined(frame[t].prev)
    /\ Goto(t, "av_new")
    /\ NoCall
    /\ UNCHANGED <<mgr, workers, cstate, evs, frame, rs_last, now>>
    /\ UNCHANGED fac

\* ConnectionManager._connected_loop is not None: the manager is built with a
\* callback (ControllerConnectionManager passes its _connected_loop)
_connected_loop == TRUE

\* _new_maintained_connection: MaintainedConnectionLoop(mc) is called without the
\* loop argument, so the loop's _loop is the default, None
_loop == FALSE

\* _new_maintained_connection and the store into self._connections
AvailableNew(t) ==
    /\ pc[t] = "av_new"
    /\ nextRec < MaxRec
    /\ LET r == nextRec + 1
           k == frame[t].key
           c == frame[t].conn
       IN  /\ nextRec' = r
           /\ rec_key' = [rec_key EXCEPT ![r] = k]
           /\ rec_conn' = [rec_conn EXCEPT ![r] = c]
           /\ rec_loop' = [rec_loop EXCEPT ![r] = TRUE]
           /\ loop_fn' = [loop_fn EXCEPT ![r] = _loop]
           /\ nlisten' = [nlisten EXCEPT ![c] = @ + 1]
           /\ wpc' = [wpc EXCEPT ![r] = "new"]
           /\ conns' = [conns EXCEPT ![k] = r]
           /\ korder' = IF \E i \in 1..Len(korder) : korder[i] = k THEN korder
                        ELSE Append(korder, k)
           /\ frame' = [frame EXCEPT ![t].rec = r]
    /\ Goto(t, "av_start")
    /\ NoCall
    /\ UNCHANGED <<wdl, stop_event, connected, avail, nextConn, evs, rs_last, now>>
    /\ UNCHANGED <<success, fac>>

\* available(): conn.loop.start()
AvailableStart(t) ==
    /\ pc[t] = "av_start"
    /\ IF rec_loop[frame[t].rec]
       THEN start(frame[t].rec) /\ Return(t, "ok")
       ELSE UNCHANGED wpc /\ Return(t, "AttributeError")
    /\ NoCall
    /\ UNCHANGED <<mgr, wdl, stop_event, cstate, evs, frame, rs_last, now>>
    /\ UNCHANGED <<success, fac>>

\* unavailable(): if resource in self._connections: connection = ...
Unavailable(t, k) ==
    /\ pc[t] = "idle"
    /\ frame' = [frame EXCEPT ![t] = [NoFrame EXCEPT !.op = "unavailable", !.key = k,
                                                     !.prev = conns[k]]]
    /\ IF conns[k] # 0 THEN Goto(t, "un_stop") ELSE Return(t, "ok")
    /\ NoCall
    /\ UNCHANGED <<mgr, workers, cstate, evs, rs_last, now>>

\* unavailable(): connection.loop.stop(), the flag
UnavailableStop(t) ==
    /\ pc[t] = "un_stop"
    /\ IF rec_loop[frame[t].prev]
       THEN stop(frame[t].prev) /\ Goto(t, "un_join")
       ELSE UNCHANGED stop_event /\ Return(t, "AttributeError")
    /\ NoCall
    /\ UNCHANGED <<mgr, wpc, wdl, cstate, evs, frame, rs_last, now>>
    /\ UNCHANGED <<success, fac>>

\* unavailable(): connection.loop.stop(), the join
UnavailableJoin(t) ==
    /\ pc[t] = "un_join"
    /\ joined(frame[t].prev)
    /\ Goto(t, "un_null")
    /\ NoCall
    /\ UNCHANGED <<mgr, workers, cstate, evs, frame, rs_last, now>>
    /\ UNCHANGED fac

\* unavailable(): connection.loop = None
UnavailableNull(t) ==
    /\ pc[t] = "un_null"
    /\ rec_loop' = [rec_loop EXCEPT ![frame[t].prev] = FALSE]
    /\ Goto(t, "un_del")
    /\ NoCall
    /\ UNCHANGED <<conns, korder, nextRec, rec_key, rec_conn, loop_fn, workers, cstate, evs,
                   frame, rs_last, now>>
    /\ UNCHANGED fac

del_connection_keeps(k) == conns

del_connection_all(k) == [x \in Keys |-> 0]

\* del self._connections[resource]
del_connection(k) == [conns EXCEPT ![k] = 0]

\* unavailable(): del self._connections[resource]
UnavailableDel(t) ==
    /\ pc[t] = "un_del"
    /\ IF conns[frame[t].key] # 0
       THEN /\ conns' = del_connection(frame[t].key)
            /\ korder' = SelectSeq(korder, LAMBDA k : k # frame[t].key)
            /\ Return(t, "ok")
       ELSE UNCHANGED <<conns, korder>> /\ Return(t, "KeyError")
    /\ NoCall
    /\ UNCHANGED <<nextRec, rec_key, rec_conn, rec_loop, loop_fn, workers, cstate, evs,
                   frame, rs_last, now>>
    /\ UNCHANGED fac

\* MaintainedConnection.maintain: will_try
will_try(r) == PeriodRetryStrategy(rs_last[r], now).delay <= 0

\* MaintainedConnection.maintain(now)
maintain(r, out, who) ==
    /\ rs_last' = [rs_last EXCEPT ![r] = PeriodRetryStrategy(@, now).last]
    /\ IF will_try(r) THEN _open(r, out, who) ELSE NoCall /\ UNCHANGED <<connected, evs>>

\* MaintainedConnection.maintain: return will_try
maintain_returns(r) == will_try(r)

maintain_raises(r, out) == will_try(r) /\ open_raises(r, out)

\* what a MaintainedConnection object has: the attributes __init__ sets, the
\* methods of the class, and loop, set by _new_maintained_connection
MaintainedConnectionAttrs ==
    {"resource", "connector", "retry_strategy", "events", "logger",
     "_connector_events", "_open", "_close", "maintain", "loop"}

\* the connections property: dict(self._connections), values in key order
connections == [i \in 1..Len(korder) |-> conns[korder[i]]]

\* ConnectionManager.maintain(): for managed_connection in self.connections.values()
Maintain(t) ==
    /\ pc[t] = "idle"
    /\ frame' = [frame EXCEPT ![t] = [NoFrame EXCEPT !.op = "maintain", !.todo = connections]]
    /\ IF connections = <<>> THEN Return(t, "ok") ELSE Goto(t, "mt_iter")
    /\ NoCall
    /\ UNCHANGED <<mgr, workers, cstate, evs, rs_last, now>>
    /\ UNCHANGED fac

\* ConnectionManager.maintain(): one turn of the for loop: maintain(current_time())
\* in the try, and the except clause, which calls managed_connection.close()
MaintainNext(t) ==
    /\ pc[t] = "mt_iter"
    /\ LET r == Head(frame[t].todo)
           rest == Tail(frame[t].todo)
       IN  \E out \in Outcomes :
              /\ out = "ok" => HasRoom
              /\ maintain(r, out, Caller(t, "maintain"))
              /\ IF maintain_raises(r, out) /\ "close" \notin MaintainedConnectionAttrs
                 THEN /\ frame' = [frame EXCEPT ![t].failed = r]
                      /\ Return(t, "AttributeError")
                 ELSE /\ frame' = [frame EXCEPT ![t].todo = rest,
                                                ![t].failed = IF maintain_raises(r, out) THEN r ELSE @]
                      /\ IF rest = <<>> THEN Return(t, "ok") ELSE Goto(t, "mt_iter")
    /\ UNCHANGED <<mgr, workers, avail, nlisten, nextConn, now>>
    /\ UNCHANGED fac

\* ConnectionManager.update(): self.events.publish()
Update(t) ==
    /\ pc[t] = "idle"
    /\ LET st == publish([queue |-> queue, delivered |-> delivered], Caller(t, "update"))
       IN  queue' = st.queue /\ delivered' = st.delivered
    /\ NoCall
    /\ UNCHANGED <<mgr, workers, cstate, raised, ctl, rs_last, now>>

\* ---------------------------------------------------------------- environment
\* the connector belongs to a record that is in the map, has a worker, or is
\* still to be maintained by a running ConnectionManager.maintain
InUse(c) ==
    \E r \in Recs :
        /\ r <= nextRec /\ rec_conn[r] = c
        /\ \/ conns[rec_key[r]] = r
           \/ wpc[r] # "exited"
           \/ \E t \in Threads : \E i \in 1..Len(frame[t].todo) : frame[t].todo[i] = r

\* the endpoint goes away or comes back: connector.available changes
ConnectorAvailability(c) ==
    /\ InUse(c)
    /\ avail' = [avail EXCEPT ![c] = ~@]
    /\ NoCall
    /\ UNCHANGED <<mgr, workers, connected, nlisten, nextConn, evs, ctl, rs_last, now>>
    /\ UNCHANGED fac

\* the connection is lost: the connector is no longer connected and says so
ConnectorDrop(c) ==
    /\ connected[c]
    /\ disconnect(c, [thread |-> <<"connector", c>>, op |-> "drop"])
    /\ NoCall
    /\ UNCHANGED <<mgr, workers, avail, nlisten, nextConn, ctl, rs_last, now>>
    /\ UNCHANGED fac

Tick ==
    /\ now < MaxTime
    /\ now' = now + 1
    /\ NoCall
    /\ UNCHANGED <<mgr, workers, cstate, evs, ctl, rs_last>>
    /\ UNCHANGED fac

\* ------------------------------------------------------------- specifications
WorkerStep(r) ==
    \/ WorkerCheck(r)
    \/ WorkerOpen(r)
    \/ WorkerConnected(r)
    \/ WorkerRetry(r)
    \/ WorkerWake(r)

\* the steps of controlling thread t, whose calls are about the resources K
ManagerStep(t, K) ==
    \/ \E k \in K : \E c \in Conns : Available(t, k, c) /\ UNCHANGED fac
    \/ AvailableStop(t)
    \/ AvailableJoin(t)
    \/ AvailableNew(t)
    \/ AvailableStart(t)
    \/ \E k \in K : Unavailable(t, k) /\ UNCHANGED fac
    \/ UnavailableStop(t)
    \/ UnavailableJoin(t)
    \/ UnavailableNull(t)
    \/ UnavailableDel(t)
    \/ Maintain(t)
    \/ MaintainNext(t)
    \/ Update(t) /\ UNCHANGED fac
    \/ Resume(t)

Environment ==
    \/ \E c \in Conns : ConnectorAvailability(c)
    \/ \E c \in Conns : ConnectorDrop(c)
    \/ Tick

\* one controlling thread drives the manager for one resource, whose connector
\* is replaced and removed; the workers run beside it
Next ==
    \/ ManagerStep("t1", {"A"})
    \/ \E r \in Recs : WorkerStep(r)
    \/ Environment

Spec == Init /\ [][Next]_vars

\* the worker threads are scheduled: a worker that can take a step that changes
\* something eventually takes one; the controlling thread finishes its calls
FairSpec ==
    /\ Spec
    /\ \A r \in Recs : WF_vars(WorkerStep(r))
    /\ WF_vars(ManagerStep("t1", {"A"}))

\* the steps of thread t in its calls of available() for the resources K
AvailableStep(t, K) ==
    \/ \E k \in K : \E c \in Conns : Available(t, k, c) /\ UNCHANGED fac
    \/ AvailableStop(t)
    \/ AvailableJoin(t)
    \/ AvailableNew(t)
    \/ AvailableStart(t)
    \/ Resume(t)

\* the steps of thread t in its calls of unavailable() for the resources K
UnavailableStep(t, K) ==
    \/ \E k \in K : Unavailable(t, k) /\ UNCHANGED fac
    \/ UnavailableStop(t)
    \/ UnavailableJoin(t)
    \/ UnavailableNull(t)
    \/ UnavailableDel(t)
    \/ Resume(t)

\* the steps of thread t when it only reports the resources K coming and going
AvailabilityStep(t, K) == AvailableStep(t, K) \/ UnavailableStep(t, K)

\* one controlling thread reports two resources; the workers maintain the
\* connections, within one tick of the clock
TwoKeyNext ==
    \/ AvailabilityStep("t1", Keys)
    \/ \E r \in Recs : WorkerStep(r)
    \/ \E c \in Conns : ConnectorAvailability(c)
    \/ \E c \in Conns : ConnectorDrop(c)

TwoKeySpec == Init /\ [][TwoKeyNext]_vars

\* one thread reports a resource and its changed connectors with available()
\* while another reports it gone with unavailable(); the workers maintain the
\* connections
TwoThreadNext ==
    \/ AvailableStep("t1", {"A"})
    \/ UnavailableStep("t2", {"A"})
    \/ \E r \in Recs : WorkerStep(r)
    \/ Environment

TwoThreadSpec == Init /\ [][TwoThreadNext]_vars

\* -------------------------------- ConnectionDiscovery, ControllerDiscoveryFacade
\* the events a ResourceDiscovery fires about resource k when it is polled
ResourceEvents(d, k) ==
    {[d |-> d, kind |-> kind, key |-> k] : kind \in {"Available", "Unavailable", "Other"}}

\* what one poll of discovery d fires: up to MaxFired events
Fired(d, k) == UNION {[1..n -> ResourceEvents(d, k)] : n \in 0..MaxFired}

\* the lists of discoveries a facade is built with
FacadeLists == {<<>>, <<"d1">>, <<"d2", "d1">>}

\* what the connector factory returns for a resource: nothing, or a connector
\* it has just built
Made == {0} \cup (IF nextConn < MaxConn THEN {nextConn + 1} ELSE {})

resource_event_drops_unavailable(manager, e, made) ==
    IF ~manager THEN [op |-> "none", factory |-> NoFactory]
    ELSE IF e.kind = "Available"
         THEN [op |-> IF made # 0 THEN "available" ELSE "none",
               factory |-> [arg |-> e.key, made |-> made]]
         ELSE [op |-> "none", factory |-> NoFactory]

\* ConnectionDiscovery.resource_event: the manager call it makes and the use it
\* makes of the connector factory, which returns `made`
resource_event(manager, e, made) ==
    IF ~manager THEN [op |-> "none", factory |-> NoFactory]
    ELSE IF e.kind = "Available"
         THEN [op |-> IF made # 0 THEN "available" ELSE "none",
               factory |-> [arg |-> e.key, made |-> made]]
         ELSE IF e.kind = "Unavailable"
              THEN [op |-> "unavailable", factory |-> NoFactory]
              ELSE [op |-> "none", factory |-> NoFactory]

\* the discovery delivers the next event it fired to its listener, resource_event
ResourceEvent(t) ==
    /\ pc[t] = "idle"
    /\ facade.pending # <<>>
    /\ LET e == Head(facade.pending)
       IN  \E made \in Made :
              LET call == resource_event(d_manager[e.d], e, made)
              IN  /\ e.kind # "Available" => made = 0
                  /\ facade' = [facade EXCEPT !.pending = Tail(@), !.factory = call.factory]
                  /\ IF call.op = "available" THEN Available(t, e.key, made)
                     ELSE IF call.op = "unavailable" THEN Unavailable(t, e.key)
                     ELSE /\ NoCall
                          /\ UNCHANGED <<mgr, workers, cstate, evs, ctl, rs_last, now>>
    /\ UNCHANGED <<d_manager, server>>

\* ConnectionDiscovery.update() called on a discovery by itself
DiscoveryUpdate(t, d) ==
    /\ pc[t] = "idle"
    /\ ~facade.in_update /\ facade.pending = <<>>
    /\ \E fired \in Fired(d, "A") :
          facade' = [facade EXCEPT !.pending = fired, !.factory = NoFactory]
    /\ NoCall
    /\ UNCHANGED <<mgr, workers, cstate, evs, ctl, rs_last, now, d_manager, server>>

\* ControllerDiscoveryFacade.__init__
FacadeConstruct(t, ds) ==
    /\ pc[t] = "idle"
    /\ ~facade.built /\ facade.pending = <<>>
    /\ facade' = [NoFacade EXCEPT !.built = TRUE, !.discoveries = ds]
    /\ d_manager' = [d \in Discoveries |->
                        IF \E i \in 1..Len(ds) : ds[i] = d THEN TRUE ELSE d_manager[d]]
    /\ UNCHANGED server
    /\ NoCall
    /\ UNCHANGED <<mgr, workers, cstate, evs, ctl, rs_last, now>>

each_discovery_but_first(ds) == IF ds = <<>> THEN ds ELSE Tail(ds)

\* ControllerDiscoveryFacade.update(): for d in self.discoveries
each_discovery(ds) == ds

\* ControllerDiscoveryFacade.update() is called
FacadeUpdate(t) ==
    /\ pc[t] = "idle"
    /\ facade.built /\ ~facade.in_update /\ facade.pending = <<>>
    /\ facade' = [facade EXCEPT !.in_update = TRUE, !.todo = each_discovery(facade.discoveries),
                                !.polled = <<>>, !.factory = NoFactory]
    /\ NoCall
    /\ UNCHANGED <<mgr, workers, cstate, evs, ctl, rs_last, now, d_manager, server>>

\* ControllerDiscoveryFacade.update(): d.update() for the next discovery
FacadePoll(t) ==
    /\ pc[t] = "idle"
    /\ facade.in_update /\ facade.pending = <<>> /\ facade.todo # <<>>
    /\ LET d == Head(facade.todo)
       IN  \E fired \in Fired(d, "A") :
              facade' = [facade EXCEPT !.todo = Tail(@), !.polled = Append(@, d),
                                       !.pending = fired, !.factory = NoFactory]
    /\ NoCall
    /\ UNCHANGED <<mgr, workers, cstate, evs, ctl, rs_last, now, d_manager, server>>

\* ControllerDiscoveryFacade.update(): self.manager.update(), and the return
FacadeManagerUpdate(t) ==
    /\ facade.in_update /\ facade.pending = <<>> /\ facade.todo = <<>>
    /\ Update(t)
    /\ facade' = [facade EXCEPT !.in_update = FALSE, !.polled = Append(@, "manager"),
                                !.factory = NoFactory]
    /\ UNCHANGED <<d_manager, server>>

\* the steps of the thread that builds the facade and calls its update()
FacadeStep(t) ==
    \/ \E ds \in FacadeLists : FacadeConstruct(t, ds)
    \/ \E d \in Discoveries : DiscoveryUpdate(t, d)
    \/ FacadeUpdate(t)
    \/ FacadePoll(t)
    \/ ResourceEvent(t)
    \/ FacadeManagerUpdate(t)
    \/ AvailableStop(t)
    \/ AvailableJoin(t)
    \/ AvailableNew(t)
    \/ AvailableStart(t)
    \/ UnavailableStop(t)
    \/ UnavailableJoin(t)
    \/ UnavailableNull(t)
    \/ UnavailableDel(t)
    \/ Resume(t)

\* discoveries report resource A through the facade; the workers maintain the
\* connections, within one tick of the clock
FacadeNext ==
    \/ FacadeStep("t1")
    \/ \E r \in Recs : WorkerStep(r)
    \/ \E c \in Conns : ConnectorAvailability(c)
    \/ \E c \in Conns : ConnectorDrop(c)

FacadeSpec == Init /\ [][FacadeNext]_vars

\* ---------------------------------------------------------- TCPServerDiscovery
_publish_fires(st, event, info) ==
    IF info THEN [st EXCEPT !.fired = Append(@, [ev |-> event, by |-> "zeroconf"]),
                            !.put = Append(@, event)]
    ELSE st

\* TCPServerDiscovery._publish: the event is put on event_queue when zeroconf
\* has info for the service, and is dropped when it has none
_publish(st, event, info) ==
    IF info THEN [st EXCEPT !.event_queue = Append(@, event), !.put = Append(@, event)]
    ELSE st

\* add_service / remove_service: a notification of the service browser, on the
\* zeroconf thread; the event records where update() was when it was made
ServiceNotification(kind, info) ==
    /\ server.notified < MaxPut
    /\ LET event == [id |-> server.notified + 1, kind |-> kind, at |-> server.pc]
       IN  server' = [_publish(server, event, info) EXCEPT !.notified = @ + 1]
    /\ NoCall
    /\ UNCHANGED <<mgr, workers, cstate, evs, ctl, rs_last, now, d_manager, facade>>

\* update(): if not queue.empty()
ServerUpdate ==
    /\ server.pc = "idle"
    /\ server' = [server EXCEPT !.pc = IF server.event_queue # <<>> THEN "while" ELSE "idle",
                                !.events = <<>>]
    /\ NoCall
    /\ UNCHANGED <<mgr, workers, cstate, evs, ctl, rs_last, now, d_manager, facade>>

\* update(): while not queue.empty()
ServerWhile ==
    /\ server.pc = "while"
    /\ server' = [server EXCEPT !.pc = IF server.event_queue # <<>> THEN "get" ELSE "fire"]
    /\ NoCall
    /\ UNCHANGED <<mgr, workers, cstate, evs, ctl, rs_last, now, d_manager, facade>>

\* update(): events.append(queue.get())
ServerGet ==
    /\ server.pc = "get"
    /\ server.event_queue # <<>>
    /\ server' = [server EXCEPT !.events = Append(@, Head(server.event_queue)),
                                !.event_queue = Tail(@), !.pc = "while"]
    /\ NoCall
    /\ UNCHANGED <<mgr, workers, cstate, evs, ctl, rs_last, now, d_manager, facade>>

\* PolledResourceDiscovery._fire_events: each event of the list goes to the
\* listeners, in the order of the list, on the calling thread
_fire_events(st, events, thread) ==
    [st EXCEPT !.fired = @ \o [i \in 1..Len(events) |-> [ev |-> events[i], by |-> thread]]]

\* update(): self._fire_events(events), and update() returns
ServerFire ==
    /\ server.pc = "fire"
    /\ server' = [_fire_events(server, server.events, "update") EXCEPT
                     !.events = <<>>, !.pc = "idle"]
    /\ NoCall
    /\ UNCHANGED <<mgr, workers, cstate, evs, ctl, rs_last, now, d_manager, facade>>

\* the zeroconf thread notifies the discovery of services while the
\* controlling thread calls update()
ServerNext ==
    \/ \E kind \in {"Available", "Unavailable"} : \E info \in BOOLEAN :
          ServiceNotification(kind, info)
    \/ ServerUpdate
    \/ ServerWhile
    \/ ServerGet
    \/ ServerFire

ServerSpec == Init /\ [][ServerNext]_vars

\* A MaintainedConnectionLoop used by itself: one MaintainedConnection on
\* connector 1, with the events of the manager as its sink, and
\* MaintainedConnectionLoop(mc, loop) built with a callback and started
LoopInit ==
    /\ conns = [k \in Keys |-> 0]
    /\ korder = <<>>
    /\ nextRec = 1
    /\ nextConn = 1
    /\ rec_key = [r \in Recs |-> "A"]
    /\ rec_conn = [r \in Recs |-> IF r = 1 THEN 1 ELSE 0]
    /\ rec_loop = [r \in Recs |-> r = 1]
    /\ loop_fn = [r \in Recs |-> r = 1]
    /\ rs_last = [r \in Recs |-> NoTime]
    /\ wpc = [r \in Recs |-> IF r = 1 THEN "check" ELSE "none"]
    /\ wdl = [r \in Recs |-> 0]
    /\ stop_event = [r \in Recs |-> FALSE]
    /\ success = [r \in Recs |-> "unset"]
    /\ connected = [c \in Conns |-> FALSE]
    /\ avail = [c \in Conns |-> FALSE]
    /\ nlisten = [c \in Conns |-> IF c = 1 THEN 1 ELSE 0]
    /\ called = 0
    /\ queue = <<>>
    /\ delivered = <<>>
    /\ raised = <<>>
    /\ now = 0
    /\ pc = [t \in Threads |-> "idle"]
    /\ frame = [t \in Threads |-> NoFrame]
    /\ result = [t \in Threads |-> "none"]
    /\ attempted = [c \in Conns |-> NoTime]
    /\ d_manager = [d \in Discoveries |-> FALSE]
    /\ facade = NoFacade
    /\ server = NoServer

\* loop.stop() called by the owner of the loop: the flag is set (the join only
\* holds the caller)
LoopStop(r) ==
    /\ Running(r) /\ ~stop_event[r]
    /\ stop(r)
    /\ NoCall
    /\ UNCHANGED <<mgr, wpc, wdl, success, cstate, evs, ctl, rs_last, now, fac>>

LoopNext ==
    \/ \E r \in Recs : WorkerStep(r)
    \/ \E r \in Recs : LoopStop(r)
    \/ Update("t1") /\ UNCHANGED fac
    \/ Environment

LoopSpec == LoopInit /\ [][LoopNext]_vars

\* ----------------------------------------------------------------- properties
Created(r) == r <= nextRec

\* the record was taken out of the map by a finished unavailable()
Removed(r) ==
    /\ Created(r)
    /\ ~rec_loop[r]
    /\ \A t \in Threads : ~(pc[t] = "un_del" /\ frame[t].prev = r)

\* the thread is making this step the first step of a call of op
Calls(t, op) == pc[t] = "idle" /\ frame'[t].op = op

\* C1: available(R, C) with the connector C that the record of R already
\* holds returns at once and changes nothing: same record, no worker started,
\* no connect() call
C1_SameConnectorIsNoOp ==
    [][\A t \in Threads :
          (/\ Calls(t, "available")
           /\ conns[frame'[t].key] # 0
           /\ rec_conn[conns[frame'[t].key]] = frame'[t].conn)
          => /\ pc'[t] = "returned" /\ result'[t] = "ok"
             /\ called' = 0
             /\ UNCHANGED <<mgr, workers, cstate, evs, rs_last>>]_vars

C1_Witness ==
    \E t \in Threads :
        /\ pc[t] = "returned" /\ frame[t].op = "available" /\ result[t] = "ok"
        /\ frame[t].prev # 0 /\ frame[t].rec = 0
        /\ conns[frame[t].key] = frame[t].prev
        /\ rec_conn[frame[t].prev] = frame[t].conn
        /\ Running(frame[t].prev)

\* C2: the records of one key never have two workers active at once, and when a
\* later record of the key is in the map the worker of every earlier record of
\* the key has left its loop and its connector is disconnected
C2_OldWorkerStoppedAndDisconnected ==
    \A r1, r2 \in Recs :
        (r1 < r2 /\ Created(r2) /\ rec_key[r1] = rec_key[r2])
        => /\ wpc[r1] = "exited"
           /\ ~connected[rec_conn[r1]]

\* C3: once unavailable(R) has returned, the worker of R's record has left and
\* the record's connector is disconnected
C3_UnavailableLeavesDisconnected ==
    \A r \in Recs :
        Removed(r) => wpc[r] = "exited" /\ ~connected[rec_conn[r]]

\* C4: when unavailable(R) returns R is not a key of the snapshot; for a key that
\* was not in the map the call raises nothing and changes nothing
C4_UnavailableRemovesKey ==
    /\ [](\A t \in Threads :
            (pc[t] = "returned" /\ frame[t].op = "unavailable")
            => result[t] = "ok" /\ conns[frame[t].key] = 0
               /\ \A i \in 1..Len(connections) : korder[i] # frame[t].key)
    /\ [][\A t \in Threads :
            (Calls(t, "unavailable") /\ conns[frame'[t].key] = 0)
            => /\ pc'[t] = "returned" /\ result'[t] = "ok"
               /\ UNCHANGED <<mgr, workers, cstate, evs, rs_last>>]_vars

\* unavailable() has returned for a record whose worker had been through its loop
C4_Witness ==
    \E t \in Threads :
        /\ pc[t] = "returned" /\ frame[t].op = "unavailable" /\ result[t] = "ok"
        /\ frame[t].prev # 0 /\ conns[frame[t].key] = 0
        /\ wpc[frame[t].prev] = "exited" /\ rs_last[frame[t].prev] # NoTime

\* C5: once a stop is requested for a worker, the worker eventually leaves
C5_StopLeadsToExit ==
    \A r \in Recs : stop_event[r] ~> (wpc[r] = "exited")

\* C6: when maintain() of a record raises an unexpected error in
\* ConnectionManager.maintain, the record is out of the map when the call ends
C6_FailedRecordDropped ==
    \A t \in Threads :
        (pc[t] = "returned" /\ frame[t].op = "maintain" /\ frame[t].failed # 0)
        => /\ conns[rec_key[frame[t].failed]] # frame[t].failed
           /\ ~connected[rec_conn[frame[t].failed]]

\* C7: ConnectionManager.maintain returns normally, having called maintain(now)
\* on every record of its snapshot, whatever one record raised
C7_MaintainNeverRaises ==
    \A t \in Threads :
        (pc[t] = "returned" /\ frame[t].op = "maintain")
        => result[t] = "ok" /\ frame[t].todo = <<>>

\* C8: listeners are run only inside update(), on the controlling thread that
\* called it; never on a worker thread
C8_ListenersOnlyInUpdate ==
    \A i \in 1..Len(delivered) :
        delivered[i].by.op = "update" /\ delivered[i].by.thread \in Threads

\* the worker of r made the connection (maintain() would have used the retry
\* strategy), and update() has delivered its event
C8_Witness ==
    \E r \in Recs : \E i \in 1..Len(delivered) :
        /\ Created(r) /\ wpc[r] = "while" /\ rs_last[r] = NoTime
        /\ connected[rec_conn[r]]
        /\ delivered[i].ev = Ev("connected", rec_conn[r])

\* C9: what update() has delivered, followed by what is still queued, is what
\* the connectors raised, in that order: nothing lost, nothing twice; and each
\* connector's events alternate, connected first
EventsOf(seq, c) == SelectSeq(seq, LAMBDA e : e.conn = c)

C10_NoConnectWhileUnavailable ==
    [][/\ called' # 0 => avail[called'] /\ ~connected[called']
       /\ \A c \in Conns : (connected'[c] /\ ~connected[c]) => avail[c]
       /\ (Len(raised') > Len(raised) /\ raised'[Len(raised')].type = "connected")
             => avail[raised'[Len(raised')].conn]]_vars

C10_Witness ==
    \E t \in Threads : \E r \in Recs :
        /\ pc[t] = "returned" /\ frame[t].op = "maintain" /\ result[t] = "ok"
        /\ conns[rec_key[r]] = r /\ Created(r)
        /\ ~avail[rec_conn[r]] /\ ~connected[rec_conn[r]]
        /\ rs_last[r] = now /\ wpc[r] = "sleep"
        /\ \A i \in 1..Len(raised) : raised[i].conn # rec_conn[r]

C12_CallbackInvokedWhileConnected ==
    \A r \in Recs :
        (/\ Created(r) /\ conns[rec_key[r]] = r /\ ~stop_event[r]
         /\ wpc[r] = "while" /\ while_connected(r) /\ success[r] = "True")
        => (_connected_loop => loop_fn[r])

\* the thread takes a step of a call of unavailable()
InUnavailable(t) == pc'[t] # pc[t] /\ frame'[t].op = "unavailable"

\* nothing of record r changes: the record, its loop and worker, its retry
\* strategy, its connector
RecordUnchanged(r) ==
    /\ rec_key'[r] = rec_key[r] /\ rec_conn'[r] = rec_conn[r]
    /\ rec_loop'[r] = rec_loop[r] /\ loop_fn'[r] = loop_fn[r]
    /\ rs_last'[r] = rs_last[r]
    /\ wpc'[r] = wpc[r] /\ wdl'[r] = wdl[r]
    /\ stop_event'[r] = stop_event[r] /\ success'[r] = success[r]
    /\ connected'[rec_conn[r]] = connected[rec_conn[r]]
    /\ avail'[rec_conn[r]] = avail[rec_conn[r]]
    /\ nlisten'[rec_conn[r]] = nlisten[rec_conn[r]]

\* C13: the snapshot has one entry for each key made available, each with its
\* own record and connector; a step that evaluates the retry strategy of one
\* record leaves that of every other record as it was; and every step of
\* unavailable(A) leaves the entry of any other key B, B's record, connector,
\* retry strategy and worker unchanged
C13_KeysIndependent ==
    /\ [](/\ Len(connections) = Cardinality({k \in Keys : conns[k] # 0})
          /\ \A i \in 1..Len(connections) : connections[i] # 0
          /\ \A k1, k2 \in Keys :
                (k1 # k2 /\ conns[k1] # 0 /\ conns[k2] # 0)
                => /\ conns[k1] # conns[k2]
                   /\ rec_conn[conns[k1]] # rec_conn[conns[k2]])
    /\ [][\A r1, r2 \in Recs :
            (r1 # r2 /\ rs_last'[r1] # rs_last[r1]) => rs_last'[r2] = rs_last[r2]]_vars
    /\ [][\A t \in Threads : \A k \in Keys :
            (InUnavailable(t) /\ k # frame'[t].key)
            => /\ conns'[k] = conns[k]
               /\ conns[k] # 0 => RecordUnchanged(conns[k])]_vars

\* unavailable() of one key has returned while the record of the other key is in
\* the map, its worker in the retry wait it entered after a connection
C13_Witness ==
    \E t \in Threads : \E k \in Keys :
        /\ pc[t] = "returned" /\ frame[t].op = "unavailable" /\ result[t] = "ok"
        /\ frame[t].prev # 0 /\ k # frame[t].key
        /\ conns[frame[t].key] = 0 /\ conns[k] # 0
        /\ Len(connections) = 1
        /\ wpc[conns[k]] = "sleep" /\ rs_last[conns[k]] # NoTime
        /\ rs_last[frame[t].prev] = NoTime
        /\ avail[rec_conn[conns[k]]]

\* the step delivers resource event e to the resource_event of a discovery
\* that has a manager
Delivers(e) ==
    /\ facade.pending # <<>> /\ Head(facade.pending) = e
    /\ facade'.pending = Tail(facade.pending)
    /\ d_manager[e.d]

C17_FacadeUpdateOrder ==
    /\ [](facade.built
            => \A i \in 1..Len(facade.discoveries) : d_manager[facade.discoveries[i]])
    /\ [](facade.in_update
            => /\ facade.polled \o facade.todo = facade.discoveries
               /\ \A i \in 1..Len(facade.polled) : facade.polled[i] # "manager")
    /\ [][(facade.in_update /\ facade'.in_update) => delivered' = delivered]_vars
    /\ [][(facade.in_update /\ ~facade'.in_update)
            => /\ facade.polled = facade.discoveries
               /\ facade'.polled = Append(facade.discoveries, "manager")
               /\ queue' = <<>>
               /\ Len(delivered') = Len(delivered) + Len(queue)]_vars

\* an update() of a facade of two discoveries has returned, and it has
\* delivered the events of a connection made for a resource it was told of
C17_Witness ==
    /\ facade.built /\ ~facade.in_update
    /\ facade.polled = <<"d2", "d1", "manager">>
    /\ conns["A"] # 0
    /\ delivered # <<>> /\ queue = <<>>

\* C15: connect() is called on the connector of a record, and the retry strategy
\* of a record is evaluated, only in a step of that record's own worker
C15_OnlyWorkerConnects ==
    [][/\ called' # 0
          => \E r \in Recs :
                /\ Created(r) /\ rec_conn[r] = called'
                /\ wpc[r] = "open" /\ wpc'[r] # wpc[r]
       /\ \A r \in Recs :
             rs_last'[r] # rs_last[r] => wpc[r] = "wait" /\ wpc'[r] = "sleep"]_vars

\* C16: at most one worker is running for a key, and every worker that was
\* started and has not been asked to stop belongs to the record that the map
\* holds for its key
C16_RunningWorkerHasRecord ==
    /\ \A r1, r2 \in Recs :
          (r1 # r2 /\ Running(r1) /\ Running(r2)) => rec_key[r1] # rec_key[r2]
    /\ \A r \in Recs :
          (Running(r) /\ ~stop_event[r]) => conns[rec_key[r]] = r

\* C20: every record that the map holds, and so every record of a snapshot,
\* has its loop: in every state, those between the steps of available() and
\* unavailable() included
C20_RecordHasLoop ==
    /\ \A k \in Keys : conns[k] # 0 => rec_loop[conns[k]]
    /\ \A i \in 1..Len(connections) : rec_loop[connections[i]]

\* C18: a worker whose connect() has failed every time does not call connect()
\* again less than the retry period after its previous call
C18_AttemptsSpaced ==
    [][\A r \in Recs :
          (/\ wpc[r] = "open" /\ called' # 0 /\ called' = rec_conn[r]
           /\ attempted[called'] # NoTime
           /\ EventsOf(raised', called') = <<>>)
          => now - attempted[called'] >= RetryPeriod]_vars

\* C19: maintain(now) of a record returns true exactly when the call tried
\* connector.connect()
C19_MaintainReturnsAttempt ==
    [][\A t \in Threads :
          (/\ pc[t] = "mt_iter" /\ frame'[t] # frame[t]
           /\ result'[t] # "AttributeError")
          => (maintain_returns(Head(frame[t].todo)) <=> called' # 0)]_vars

\* C21: the events the service notifications queue are fired to the listeners
\* only by update(), never by the notification; what was fired, then what
\* update() holds, then what is queued, is what was queued, in that order, each
\* once; and an update() that finds the queue empty fires nothing
C21_ServerEventsOnlyInUpdate ==
    /\ [](/\ \A i \in 1..Len(server.fired) : server.fired[i].by = "update"
          /\ [i \in 1..Len(server.fired) |-> server.fired[i].ev]
                \o server.events \o server.event_queue = server.put)
    /\ [][server'.notified # server.notified => server'.fired = server.fired]_vars
    /\ [][(server.pc = "idle" /\ server.event_queue = <<>>
            /\ server'.notified = server.notified)
           => server'.fired = server.fired /\ server'.pc = "idle"]_vars

\* update() has fired, after an earlier event, one that was queued while it
\* was draining the queue, and another is waiting for the next update()
C21_Witness ==
    /\ server.pc = "idle"
    /\ Len(server.fired) >= 2
    /\ \E i \in 2..Len(server.fired) : server.fired[i].ev.at \in {"while", "get"}
    /\ server.event_queue # <<>>

====
